---- MODULE Spec2Model ----
(***************************************************************************)
(* Model of gym_light/envs/single_light_env.py: class SingleLightEnv.       *)
(*                                                                         *)
(* The environment object holds the agent's energy and position, the       *)
(* observation vector `state` and the post-terminal counter                *)
(* `steps_beyond_done`.  Its operations are step(action) and reset().      *)
(*                                                                         *)
(* Numbers: energies and coordinates are Python ints.  Rewards 1.0 and 0.0 *)
(* are written 1 and 0.  Observation samples of uniform(0.0, 0.05) are     *)
(* written in units of 0.001, so a sample lies in 0..49.                   *)
(***************************************************************************)
EXTENDS Integers, Sequences, FiniteSets, TLC

\* ------------------------------------------------------------------------
\* Bounds of the model
\* ------------------------------------------------------------------------

\* Number of calls (step or reset) made on one environment object.
MaxCalls == 10

\* ------------------------------------------------------------------------
\* Fields set once by __init__ and never assigned again
\* ------------------------------------------------------------------------

light_source_pos == <<25, 25>>
d_energy == 1
min_energy == 0
max_episode_length == 4000
max_light_distance == 200
distance_episode_length == 50
min_light_distance == 10

\* Python's None is the empty tuple; a field that is None or an int n holds
\* <<>> or <<n>>.
None == <<>>

\* spaces.Discrete(8).contains(action); the calls tried also pass the
\* integers just outside the range.
ActionsTried == -1 .. 8

action_space_accepts_8(action) == action \in 0 .. 8

action_space_contains(action) == action \in 0 .. 7

\* __init__ assigns starting_energy and starting_position and copies them
\* into current_energy and current_position.  The literals of the source are
\* 25 and (10, 10), the first element below; the other elements stand for the
\* same class constructed with another value of one of the two fields, which
\* is the only way an object with little energy, near the light or far from
\* it comes about (no method assigns current_energy or current_position).
\* (18, 18) is nearer than 10 to the light, (19, 17) is at 10 exactly,
\* (25, 225) at 200 exactly and (25, 226) farther than 200.
StartingFields ==
    {[energy |-> 25, position |-> <<10, 10>>]}
    \cup {[energy |-> e, position |-> <<10, 10>>] : e \in {0, 1}}
    \cup {[energy |-> 25, position |-> p] :
             p \in {<<18, 18>>, <<19, 17>>, <<25, 225>>, <<25, 226>>}}

\* The vectors np_random...uniform(low=0.0, high=0.05, size=(8,)) may return,
\* in units of 0.001: three of them.
SampleVectors ==
    {<<0, 0, 0, 0, 0, 0, 0, 0>>,
     <<49, 3, 0, 12, 49, 7, 25, 1>>,
     <<3, 49, 49, 0, 1, 30, 0, 16>>}

\* ------------------------------------------------------------------------
\* distance, distance_from_light, _is_episode_terminated
\* ------------------------------------------------------------------------

\* floor(sqrt(n)) by bisection on lo..hi, lo*lo <= n < (hi+1)*(hi+1)
RECURSIVE ISqrtIn(_, _, _)
ISqrtIn(n, lo, hi) ==
    IF lo = hi THEN lo
    ELSE LET mid == (lo + hi + 1) \div 2
         IN IF mid * mid <= n THEN ISqrtIn(n, mid, hi)
                               ELSE ISqrtIn(n, lo, mid - 1)

\* math.sqrt of a non-negative integer, kept exactly as far as a comparison
\* with an integer needs: its integer part and whether it is an integer.
sqrt(n) == LET r == ISqrtIn(n, 0, n) IN [fl |-> r, exact |-> r * r = n]

\* x < m and x > m for x a value of sqrt and m an integer
RealLess(x, m) == x.fl < m

RealGreater(x, m) == x.fl > m \/ (x.fl = m /\ ~x.exact)

distance(p1, p2) ==
    sqrt((p2[1] - p1[1]) * (p2[1] - p1[1]) + (p2[2] - p1[2]) * (p2[2] - p1[2]))

distance_from_light(position) == distance(position, light_source_pos)

is_episode_terminated_no_far(energy, position) ==
    LET dist == distance_from_light(position)
    IN \/ energy <= min_energy
       \/ RealLess(dist, min_light_distance)

is_episode_terminated_strict(energy, position) ==
    LET dist == distance_from_light(position)
    IN \/ energy < min_energy
       \/ RealLess(dist, min_light_distance)
       \/ RealGreater(dist, max_light_distance)

\* _is_episode_terminated reads self.current_energy and self.current_position
is_episode_terminated(energy, position) ==
    LET dist == distance_from_light(position)
    IN \/ energy <= min_energy
       \/ RealLess(dist, min_light_distance)
       \/ RealGreater(dist, max_light_distance)

\* ------------------------------------------------------------------------
\* State
\* ------------------------------------------------------------------------

VARIABLES
    starting_energy,    \* self.starting_energy
    starting_position,  \* self.starting_position
    current_energy,     \* self.current_energy
    current_position,   \* self.current_position
    state,              \* self.state: None or the 8 observations
    steps_beyond_done,  \* self.steps_beyond_done: None or a count
    call,               \* the last call made and what it gave back
    pre,                \* the fields as they were when that call began
    episode,            \* what has happened since the last reset
    counted,            \* what has happened since construction
    ncalls,             \* number of calls made
    limit               \* number of calls this run makes

vars == <<starting_energy, starting_position, current_energy, current_position,
          state, steps_beyond_done, call, pre, episode, counted, ncalls, limit>>

\* call: what the last call was and what came of it.  A step that returned
\* carries the returned tuple (obs, reward, done) and whether logger.warn was
\* called; a reset carries its return value.
NoCall == [op |-> "init"]

\* The fields of the object, as a call finds them
Fields == [position |-> current_position, energy |-> current_energy,
           state |-> state, steps_beyond_done |-> steps_beyond_done,
           episode |-> episode]

\* Since the last reset (or since construction): steps = steps that
\* returned, doneSeen = some step returned done = True, doneRewarded = some
\* step returned done = True with reward 1.0, warnings = warnings logged,
\* neRun = k when a reset has been followed by k step(1) calls and no other
\* step, -1 otherwise, sample = the vector that reset drew (None when the
\* object has not been reset).
FreshEpisode(run) == [steps |-> 0, doneSeen |-> FALSE, doneRewarded |-> FALSE,
                      warnings |-> 0, neRun |-> run, sample |-> None]

\* Since construction: everDone = some step found _is_episode_terminated true;
\* further = k when the step that found steps_beyond_done None and set it has
\* been followed by k steps that returned and by no reset, -1 otherwise.
NothingCounted == [everDone |-> FALSE, further |-> -1]

Init ==
    /\ \E f \in StartingFields :
         /\ starting_energy = f.energy
         /\ starting_position = f.position
    /\ current_energy = starting_energy
    /\ current_position = starting_position
    /\ state = None
    /\ steps_beyond_done = None
    /\ call = NoCall
    /\ episode = FreshEpisode(-1)
    /\ pre = Fields
    /\ counted = NothingCounted
    /\ ncalls = 0
    /\ limit = MaxCalls

\* ------------------------------------------------------------------------
\* step
\* ------------------------------------------------------------------------

\* The eight compass directions of the class docstring, actions 0..7 in the
\* order N, NE, E, SE, S, SW, W, NW, as offsets (dx, dy).
Offset(action) ==
    CASE action = 0 -> <<0, 1>>
      [] action = 1 -> <<1, 1>>
      [] action = 2 -> <<1, 0>>
      [] action = 3 -> <<1, -1>>
      [] action = 4 -> <<0, -1>>
      [] action = 5 -> <<-1, -1>>
      [] action = 6 -> <<-1, 0>>
      [] action = 7 -> <<-1, 1>>

Moved(position, action) ==
    <<position[1] + Offset(action)[1], position[2] + Offset(action)[2]>>

\* The assertion of line 148 fails: AssertionError, nothing assigned.
StepRaises(action) ==
    /\ call' = [op |-> "step", action |-> action, outcome |-> "raised"]
    /\ UNCHANGED <<current_energy, current_position, state,
                   steps_beyond_done, episode, counted>>

step_reward_penalty(done, beyond_done) ==
    IF done /\ beyond_done # None THEN -1 ELSE 1

step_reward_inverted(done, beyond_done) ==
    IF done /\ beyond_done # None THEN 1 ELSE 0

\* The reward of lines 155-169: 1.0 unless the predicate holds and
\* steps_beyond_done is already set.
step_reward(done, beyond_done) ==
    IF done /\ beyond_done # None THEN 0 ELSE 1

steps_beyond_done_stuck(done, beyond_done) ==
    IF ~done THEN beyond_done ELSE <<0>>

\* steps_beyond_done after lines 155-169
steps_beyond_done_after(done, beyond_done) ==
    IF ~done THEN beyond_done
    ELSE IF beyond_done = None THEN <<0>>
    ELSE <<beyond_done[1] + 1>>

np_array_narrowed(v) ==
    IF v = None THEN <<None>> ELSE [i \in DOMAIN v |-> (v[i] \div 2) * 2]

\* np.array(self.state) of line 171: a copy of the vector; of None, a
\* zero-dimensional array that holds None.
np_array(v) == IF v = None THEN <<None>> ELSE v

\* Lines 150-171, leaving the object with the given energy and position.
StepReturns(action, energy, position) ==
    LET done == is_episode_terminated(energy, position)
        beyond == done /\ steps_beyond_done # None
        warned == beyond /\ steps_beyond_done = <<0>>
        reward == step_reward(done, steps_beyond_done)
    IN /\ current_energy' = energy
       /\ current_position' = position
       /\ steps_beyond_done' = steps_beyond_done_after(done, steps_beyond_done)
       /\ state' = state
       /\ call' = [op |-> "step", action |-> action, outcome |-> "returned",
                   obs |-> np_array(state), reward |-> reward, done |-> done,
                   warned |-> warned]
       /\ counted' =
            [everDone |-> counted.everDone \/ done,
             further |-> IF done /\ steps_beyond_done = None THEN 0
                         ELSE IF counted.further >= 0 THEN counted.further + 1
                         ELSE -1]
       /\ episode' =
            [steps |-> episode.steps + 1,
             doneSeen |-> episode.doneSeen \/ done,
             doneRewarded |-> episode.doneRewarded \/ (done /\ reward = 1),
             warnings |-> episode.warnings + (IF warned THEN 1 ELSE 0),
             neRun |-> IF action = 1 /\ episode.neRun >= 0
                       THEN episode.neRun + 1 ELSE -1,
             sample |-> episode.sample]

\* step as it would be if it moved the agent by the action's offset
step_moving(action) ==
    /\ ncalls < limit
    /\ ncalls' = ncalls + 1
    /\ pre' = Fields
    /\ UNCHANGED <<starting_energy, starting_position, limit>>
    /\ IF action_space_contains(action)
       THEN StepReturns(action, current_energy, Moved(current_position, action))
       ELSE StepRaises(action)

\* SingleLightEnv.step: neither current_energy nor current_position is
\* assigned.
step(action) ==
    /\ ncalls < limit
    /\ ncalls' = ncalls + 1
    /\ pre' = Fields
    /\ UNCHANGED <<starting_energy, starting_position, limit>>
    /\ IF action_space_contains(action)
       THEN StepReturns(action, current_energy, current_position)
       ELSE StepRaises(action)

\* ------------------------------------------------------------------------
\* reset
\* ------------------------------------------------------------------------

\* SingleLightEnv.reset: assigns self.state and nothing else; it has no
\* return statement, so the call gives back None.
reset ==
    /\ ncalls < limit
    /\ ncalls' = ncalls + 1
    /\ pre' = Fields
    /\ state' \in SampleVectors
    /\ call' = [op |-> "reset", outcome |-> "returned", ret |-> None]
    /\ episode' = [FreshEpisode(0) EXCEPT !.sample = state']
    /\ counted' = [counted EXCEPT !.further = -1]
    /\ UNCHANGED <<starting_energy, starting_position, current_energy,
                   current_position, steps_beyond_done, limit>>

Next ==
    \/ \E action \in ActionsTried : step(action)
    \/ reset

Spec == Init /\ [][Next]_vars

\* A run long enough to pass max_episode_length: the object as the source
\* constructs it, at most one reset, made first, then steps north or
\* north-east.
InitLong ==
    /\ starting_energy = 25
    /\ starting_position = <<10, 10>>
    /\ current_energy = starting_energy
    /\ current_position = starting_position
    /\ state = None
    /\ steps_beyond_done = None
    /\ call = NoCall
    /\ episode = FreshEpisode(-1)
    /\ pre = Fields
    /\ counted = NothingCounted
    /\ ncalls = 0
    /\ limit = max_episode_length + 2

NextLong ==
    \/ \E action \in 0 .. 1 : step(action)
    \/ ncalls = 0 /\ reset

SpecLong == InitLong /\ [][NextLong]_vars

\* ------------------------------------------------------------------------
\* Properties
\* ------------------------------------------------------------------------

StepReturned == call.op = "step" /\ call.outcome = "returned"

StepRaised == call.op = "step" /\ call.outcome = "raised"

ResetReturned == call.op = "reset" /\ call.outcome = "returned"

\* The fields as __init__ leaves them in the source
SourceFields == starting_energy = 25 /\ starting_position = <<10, 10>>

\* Square of the distance from a position to the light
LightDistSq(position) ==
    (position[1] - light_source_pos[1]) * (position[1] - light_source_pos[1])
    + (position[2] - light_source_pos[2]) * (position[2] - light_source_pos[2])

\* The termination condition as the specification words it, on squares
TerminatedBySpec(energy, position) ==
    \/ energy <= min_energy
    \/ LightDistSq(position) < min_light_distance * min_light_distance
    \/ LightDistSq(position) > max_light_distance * max_light_distance

NearLight(position) ==
    LightDistSq(position) < min_light_distance * min_light_distance

\* C1: after a step with a valid action the position is the position before
\* the step moved by the offset of the action's compass direction (stated of
\* the object as the source constructs it).
C1_StepMovesByOffset ==
    (SourceFields /\ StepReturned) =>
        current_position = Moved(pre.position, call.action)

\* C2: after a step with a valid action the energy is the energy before minus
\* energy_delta when the new distance to the light is not below
\* min_light_distance, and the energy before when it is below (stated of the
\* object as the source constructs it).
C2_EnergyUpdate ==
    (SourceFields /\ StepReturned) =>
        current_energy = IF NearLight(current_position)
                         THEN pre.energy
                         ELSE pre.energy - d_energy

C4_TerminationAbsorbing ==
    (StepReturned /\ pre.episode.doneSeen) => call.done

\* C4 witness: a step made after a step of the same episode returned
\* done = True, with some calls beyond it already counted.
C4_Witness ==
    /\ StepReturned
    /\ pre.episode.doneSeen
    /\ call.done
    /\ steps_beyond_done = <<2>>

C6_InvalidActionRaises ==
    (call.op = "step" /\ call.action \notin 0 .. 7) =>
        /\ call.outcome = "raised"
        /\ current_position = pre.position
        /\ current_energy = pre.energy
        /\ state = pre.state
        /\ steps_beyond_done = pre.steps_beyond_done
        /\ episode = pre.episode

\* C6 witness: step(8) raised on an object that a returning step would have
\* changed (terminated, counter armed).
C6_Witness ==
    /\ StepRaised
    /\ call.action = 8
    /\ steps_beyond_done = <<0>>
    /\ state # None

C8_NorthEastReachesLight ==
    SourceFields =>
        /\ ResetReturned => ~is_episode_terminated(current_energy, current_position)
        /\ episode.neRun >= 9 => episode.doneRewarded

C11_ResetReturnsObservation ==
    (SourceFields /\ ResetReturned) =>
        /\ call.ret = state
        /\ Len(state) = 8
        /\ \A i \in 1 .. 8 : state[i] \in 0 .. 49
        /\ ~TerminatedBySpec(current_energy, current_position)

\* C12: once more than max_episode_length steps have been taken since the
\* reset (or construction), step returns done = True.
C12_StepCap ==
    (StepReturned /\ episode.steps > max_episode_length) => call.done

\* C13: every reward step returns is 0.0 or 1.0.
C13_RewardBinary == StepReturned => call.reward \in {0, 1}

\* C13 witness: a step well beyond the end of the episode returned 0.0.
C13_Witness ==
    /\ StepReturned
    /\ call.reward = 0
    /\ steps_beyond_done = <<3>>

OutOfRange(position) ==
    \/ LightDistSq(position) < min_light_distance * min_light_distance
    \/ LightDistSq(position) > max_light_distance * max_light_distance

C15_StepKeepsObservation ==
    StepReturned =>
        /\ state = pre.state
        /\ episode.sample # None =>
             (state = episode.sample /\ call.obs = episode.sample)

\* C15 witness: the second step or later of a reset episode, moving SW,
\* returned the reset's sample.
C15_Witness ==
    /\ StepReturned
    /\ episode.sample \in SampleVectors
    /\ call.obs = episode.sample
    /\ episode.steps >= 2
    /\ call.action = 5

\* C17: steps_beyond_done is None until a step finds the termination predicate
\* true, is 0 right after the step that sets it, is k after k further steps
\* without a reset, and no step decreases it.
C17_BeyondDoneCounts ==
    /\ steps_beyond_done = None <=> ~counted.everDone
    /\ counted.further >= 0 => steps_beyond_done = <<counted.further>>
    /\ (StepReturned /\ pre.steps_beyond_done # None) =>
         (/\ steps_beyond_done # None
          /\ steps_beyond_done[1] >= pre.steps_beyond_done[1])

\* C17 witness: three steps after the step that set the counter, it is 3.
C17_Witness ==
    /\ StepReturned
    /\ counted.further = 3
    /\ steps_beyond_done = <<3>>
    /\ pre.steps_beyond_done = <<2>>

\* C18: in every state where steps_beyond_done is set, the termination
\* condition holds of the current energy and position.
C18_ArmedOnlyWhenTerminated ==
    steps_beyond_done # None =>
        TerminatedBySpec(current_energy, current_position)

\* C18 witness: a reset made with the counter set, after steps.
C18_Witness ==
    /\ ResetReturned
    /\ steps_beyond_done = <<1>>

\* C19: a step that returns reward 0.0 returns done = True.
C19_ZeroRewardOnlyWhenDone ==
    (StepReturned /\ call.reward = 0) => call.done

\* C19 witness: the first step after a reset returned reward 0.0, with
\* done = True.
C19_Witness ==
    /\ StepReturned
    /\ call.reward = 0
    /\ call.done
    /\ episode.steps = 1
    /\ episode.neRun >= 0

====
